---- MODULE Spec2Model ----
(***************************************************************************)
(* Model of the dev-kit MCP servers.                                       *)
(*                                                                         *)
(* The repository holds two entry points:                                  *)
(*   - the stand-alone GitLab server (src/index.ts and its near copy):     *)
(*     a fixed tool list, a read-only table, a ListTools handler and a     *)
(*     CallTool handler that dispatches on the tool name;                  *)
(*   - the grouped dev-kit server (build/): registerTools() registers the  *)
(*     tools of each enabled group whose credentials are configured.       *)
(*     Its tools' handlers are followed for the file-content tools, the    *)
(*     pull-request action and the script tool.                            *)
(* A behaviour runs one of the two programs; `program` says which.         *)
(***************************************************************************)
EXTENDS Integers, Sequences, FiniteSets, TLC

VARIABLES
  program,      \* "gitlab" (src/index.ts) or "devkit" (build/)
  env,          \* gitlab: [token, readOnly] -- the process environment
  proc,         \* "starting" | "running" | "exited"
  listing,      \* gitlab: tools of the last ListTools response, or NoListing
  pc,           \* gitlab: position of the CallTool handler
  request,      \* gitlab: [name, args, ref] -- the invocation being handled
  validated,    \* gitlab: schema the arguments were parsed with, or "none"
  handlerCalls, \* gitlab: times the tool's handler body was entered
  log,          \* gitlab: remote calls completed in this invocation
  inflight,     \* gitlab: remote call awaiting its response, or NoCall
  response,     \* gitlab: what the CallTool handler produced
  suspended,    \* gitlab: a second invocation, parked at an await, or NoTask
  config,       \* devkit: [enableTools, atlassianHost, ..., githubToken]
  regPc,        \* devkit: position in registerTools()
  registry,     \* devkit: names passed to server.registerTool, in order
  warnings,     \* devkit: groups that logged "... will not be available"
  invocation,   \* devkit: the tool invocation a handler is running for
  tpc,          \* devkit: position of that handler
  trace,        \* devkit: client calls the handler has completed
  pending,      \* devkit: client call awaiting its response, or NoApi
  child,        \* devkit: the subprocess of the script tool
  result        \* devkit: the object the handler returned

vars == << program, env, proc, listing, pc, request, validated, handlerCalls,
           log, inflight, response, suspended, config, regPc, registry, warnings,
           invocation, tpc, trace, pending, child, result >>

gitlabVars == << env, listing, pc, request, validated, handlerCalls, log,
                 inflight, response, suspended >>
toolVars == << invocation, tpc, trace, pending, child, result >>
devkitVars == << config, regPc, registry, warnings, toolVars >>

(***************************************************************************)
(* Bounds                                                                  *)
(***************************************************************************)
\* longest ENABLE_TOOLS selector, in comma-separated entries
MaxSel == 2
\* longest script, in words
MaxWords == 3
\* most chunks of output a subprocess writes
MaxOut == 1

(***************************************************************************)
(* Helpers                                                                 *)
(***************************************************************************)
Range(s) == { s[i] : i \in 1..Len(s) }

(***************************************************************************)
(* Stand-alone GitLab server: static tables                                *)
(***************************************************************************)
\* const allTools: the tools the server advertises, with the schema each one
\* is advertised with (inputSchema: zodToJsonSchema(X))
allTools ==
  << [name |-> "create_or_update_file", inputSchema |-> "CreateOrUpdateFileSchema"],
     [name |-> "search_repositories", inputSchema |-> "SearchRepositoriesSchema"],
     [name |-> "create_repository", inputSchema |-> "CreateRepositorySchema"],
     [name |-> "get_file_contents", inputSchema |-> "GetFileContentsSchema"],
     [name |-> "push_files", inputSchema |-> "PushFilesSchema"],
     [name |-> "create_issue", inputSchema |-> "CreateIssueSchema"],
     [name |-> "create_merge_request", inputSchema |-> "CreateMergeRequestSchema"],
     [name |-> "fork_repository", inputSchema |-> "ForkRepositorySchema"],
     [name |-> "create_branch", inputSchema |-> "CreateBranchSchema"],
     [name |-> "get_merge_request", inputSchema |-> "GetMergeRequestSchema"],
     [name |-> "get_merge_request_diffs", inputSchema |-> "GetMergeRequestDiffsSchema"],
     [name |-> "update_merge_request", inputSchema |-> "UpdateMergeRequestSchema"],
     [name |-> "create_note", inputSchema |-> "CreateNoteSchema"],
     [name |-> "list_merge_request_discussions", inputSchema |-> "ListMergeRequestDiscussionsSchema"],
     [name |-> "update_merge_request_note", inputSchema |-> "UpdateMergeRequestNoteSchema"],
     [name |-> "list_issues", inputSchema |-> "ListIssuesSchema"],
     [name |-> "get_issue", inputSchema |-> "GetIssueSchema"],
     [name |-> "update_issue", inputSchema |-> "UpdateIssueSchema"],
     [name |-> "delete_issue", inputSchema |-> "DeleteIssueSchema"],
     [name |-> "list_issue_links", inputSchema |-> "ListIssueLinksSchema"],
     [name |-> "get_issue_link", inputSchema |-> "GetIssueLinkSchema"],
     [name |-> "create_issue_link", inputSchema |-> "CreateIssueLinkSchema"],
     [name |-> "delete_issue_link", inputSchema |-> "DeleteIssueLinkSchema"],
     [name |-> "list_namespaces", inputSchema |-> "ListNamespacesSchema"],
     [name |-> "get_namespace", inputSchema |-> "GetNamespaceSchema"],
     [name |-> "verify_namespace", inputSchema |-> "VerifyNamespaceSchema"],
     [name |-> "get_project", inputSchema |-> "GetProjectSchema"],
     [name |-> "list_projects", inputSchema |-> "ListProjectsSchema"],
     [name |-> "list_labels", inputSchema |-> "ListLabelsSchema"],
     [name |-> "get_label", inputSchema |-> "GetLabelSchema"],
     [name |-> "create_label", inputSchema |-> "CreateLabelSchema"],
     [name |-> "update_label", inputSchema |-> "UpdateLabelSchema"],
     [name |-> "delete_label", inputSchema |-> "DeleteLabelSchema"],
     [name |-> "list_group_projects", inputSchema |-> "ListGroupProjectsSchema"],
     [name |-> "list_open_merge_requests", inputSchema |-> "ListOpenMergeRequestsSchema"],
     [name |-> "get_merge_request_details", inputSchema |-> "GitLabMergeRequestSchema"],
     [name |-> "get_merge_request_comments", inputSchema |-> "GetMergeRequestCommentsSchema"],
     [name |-> "add_merge_request_diff_comment", inputSchema |-> "AddMergeRequestDiffCommentSchema"] >>

\* const readOnlyTools
readOnlyTools ==
  << "search_repositories",
     "get_file_contents",
     "get_merge_request",
     "get_merge_request_diffs",
     "list_merge_request_discussions",
     "list_issues",
     "get_issue",
     "list_issue_links",
     "get_issue_link",
     "list_namespaces",
     "get_namespace",
     "verify_namespace",
     "get_project",
     "list_projects",
     "list_labels",
     "get_label",
     "list_group_projects" >>

\* Remote calls the tool handlers make.  method: HTTP method of the request;
\* parsed: the response body is parsed with a zod schema; wrapped: the call
\* sits in a try/catch that passes error.response to handleGitLabError;
\* special: the one status that catch block gives its own message.
NoSpecial == [status |-> "none", error |-> "none"]
\* revision markers of a request body: each is "none" (not in the body),
\* "caller" (the argument the caller supplied) or "file" (copied from the
\* file object the existence read returned)
NoMarkers == [commit_id |-> "none", last_commit_id |-> "none"]
Call(fn, method, parsed, wrapped, special) ==
  [fn |-> fn, method |-> method, parsed |-> parsed, wrapped |-> wrapped,
   special |-> special, body |-> NoMarkers]

createBranch == Call("createBranch", "POST", TRUE, TRUE, NoSpecial)
\* getDefaultBranchRef sent as a POST
getDefaultBranchRef_Post == Call("getDefaultBranchRef", "POST", TRUE, TRUE, NoSpecial)
getDefaultBranchRef == Call("getDefaultBranchRef", "GET", TRUE, TRUE, NoSpecial)
getFileContents ==
  Call("getFileContents", "GET", TRUE, TRUE,
       [status |-> "s404", error |-> "FileNotFound"])
createIssue ==
  Call("createIssue", "POST", TRUE, TRUE,
       [status |-> "s400", error |-> "InvalidRequest"])
listIssues == Call("listIssues", "GET", TRUE, TRUE, NoSpecial)
getIssue == Call("getIssue", "GET", TRUE, TRUE, NoSpecial)
updateIssue == Call("updateIssue", "PUT", TRUE, TRUE, NoSpecial)
deleteIssue == Call("deleteIssue", "DELETE", FALSE, TRUE, NoSpecial)
listIssueLinks == Call("listIssueLinks", "GET", TRUE, TRUE, NoSpecial)
getIssueLink == Call("getIssueLink", "GET", TRUE, TRUE, NoSpecial)
createIssueLink == Call("createIssueLink", "POST", TRUE, TRUE, NoSpecial)
deleteIssueLink == Call("deleteIssueLink", "DELETE", FALSE, TRUE, NoSpecial)
listLabels == Call("listLabels", "GET", FALSE, FALSE, NoSpecial)
getLabel == Call("getLabel", "GET", FALSE, FALSE, NoSpecial)
createLabel == Call("createLabel", "POST", FALSE, FALSE, NoSpecial)
updateLabel == Call("updateLabel", "PUT", FALSE, FALSE, NoSpecial)
deleteLabel == Call("deleteLabel", "DELETE", FALSE, FALSE, NoSpecial)
createMergeRequest ==
  Call("createMergeRequest", "POST", TRUE, TRUE,
       [status |-> "s400", error |-> "InvalidRequest"])
listMergeRequestDiscussions ==
  Call("listMergeRequestDiscussions", "GET", TRUE, TRUE, NoSpecial)
updateMergeRequestNote ==
  Call("updateMergeRequestNote", "PUT", TRUE, TRUE, NoSpecial)
\* createOrUpdateFile's own request: axios({ method, ... })
writeFile(method) == Call("createOrUpdateFile", method, TRUE, TRUE, NoSpecial)
\* body.commit_id / body.last_commit_id after a read that returned a file
\* object: the caller's value if supplied, else the file's
MarkersFromFile(req) ==
  [commit_id |-> IF req.commit_id THEN "caller" ELSE "file",
   last_commit_id |-> IF req.last_commit_id THEN "caller" ELSE "file"]
\* MarkersFromCaller that drops the caller's values
MarkersFromCaller_None(req) == NoMarkers

\* body.commit_id / body.last_commit_id in the catch branch of the read:
\* "But still use any provided as parameters if they exist"
MarkersFromCaller(req) ==
  [commit_id |-> IF req.commit_id THEN "caller" ELSE "none",
   last_commit_id |-> IF req.last_commit_id THEN "caller" ELSE "none"]
\* writeRequest that always creates
writeRequest_AlwaysPost(method, markers) ==
  [writeFile("POST") EXCEPT !.body = markers]

\* the write request of createOrUpdateFile: axios({ method, url, data: body })
writeRequest(method, markers) == [writeFile(method) EXCEPT !.body = markers]
createCommit ==
  Call("createCommit", "POST", TRUE, TRUE,
       [status |-> "s400", error |-> "InvalidRequest"])
createRepository == Call("createRepository", "POST", TRUE, TRUE, NoSpecial)
searchProjects == Call("searchProjects", "GET", TRUE, TRUE, NoSpecial)
forkProject ==
  Call("forkProject", "POST", TRUE, TRUE,
       [status |-> "s409", error |-> "AlreadyExists"])
listProjects == Call("listProjects", "GET", TRUE, FALSE, NoSpecial)
listGroupProjects == Call("listGroupProjects", "GET", TRUE, FALSE, NoSpecial)
getMergeRequest == Call("getMergeRequest", "GET", TRUE, TRUE, NoSpecial)
getMergeRequestDiffs == Call("getMergeRequestDiffs", "GET", TRUE, TRUE, NoSpecial)
updateMergeRequest == Call("updateMergeRequest", "PUT", TRUE, TRUE, NoSpecial)
createNote == Call("createNote", "POST", FALSE, FALSE, NoSpecial)
\* requests written inline in the dispatch cases
inlineListNamespaces == Call("list_namespaces", "GET", TRUE, FALSE, NoSpecial)
inlineGetNamespace == Call("get_namespace", "GET", TRUE, FALSE, NoSpecial)
inlineVerifyNamespace == Call("verify_namespace", "GET", TRUE, FALSE, NoSpecial)
inlineGetProject == Call("get_project", "GET", TRUE, FALSE, NoSpecial)
\* requests made through the gitbeaker client `api`
apiDiscussionsCreate ==
  Call("api.MergeRequestDiscussions.create", "POST", FALSE, FALSE, NoSpecial)
apiMergeRequestsAll == Call("api.MergeRequests.all", "GET", FALSE, FALSE, NoSpecial)
apiMergeRequestsShow == Call("api.MergeRequests.show", "GET", FALSE, FALSE, NoSpecial)
apiDiscussionsAll ==
  Call("api.MergeRequestDiscussions.all", "GET", FALSE, FALSE, NoSpecial)

\* The cases of the dispatch switch, in source order: the schema the case
\* parses the arguments with and the remote calls of its straight-line body
\* (<< >>: the calls depend on the arguments or on earlier results, see
\* HandlerStep).
DispatchCases ==
  << [name |-> "fork_repository", schema |-> "ForkRepositorySchema", calls |-> <<forkProject>>],
     [name |-> "add_merge_request_diff_comment", schema |-> "AddMergeRequestDiffCommentSchema", calls |-> <<apiDiscussionsCreate>>],
     [name |-> "create_branch", schema |-> "CreateBranchSchema", calls |-> <<>>],
     [name |-> "search_repositories", schema |-> "SearchRepositoriesSchema", calls |-> <<searchProjects>>],
     [name |-> "create_repository", schema |-> "CreateRepositorySchema", calls |-> <<createRepository>>],
     [name |-> "get_file_contents", schema |-> "GetFileContentsSchema", calls |-> <<>>],
     [name |-> "create_or_update_file", schema |-> "CreateOrUpdateFileSchema", calls |-> <<>>],
     [name |-> "push_files", schema |-> "PushFilesSchema", calls |-> <<createCommit>>],
     [name |-> "create_issue", schema |-> "CreateIssueSchema", calls |-> <<createIssue>>],
     [name |-> "create_merge_request", schema |-> "CreateMergeRequestSchema", calls |-> <<createMergeRequest>>],
     [name |-> "update_merge_request_note", schema |-> "UpdateMergeRequestNoteSchema", calls |-> <<updateMergeRequestNote>>],
     [name |-> "get_merge_request", schema |-> "GetMergeRequestSchema", calls |-> <<getMergeRequest>>],
     [name |-> "get_merge_request_diffs", schema |-> "GetMergeRequestDiffsSchema", calls |-> <<getMergeRequestDiffs>>],
     [name |-> "update_merge_request", schema |-> "UpdateMergeRequestSchema", calls |-> <<updateMergeRequest>>],
     [name |-> "list_merge_request_discussions", schema |-> "ListMergeRequestDiscussionsSchema", calls |-> <<listMergeRequestDiscussions>>],
     [name |-> "list_namespaces", schema |-> "ListNamespacesSchema", calls |-> <<inlineListNamespaces>>],
     [name |-> "get_namespace", schema |-> "GetNamespaceSchema", calls |-> <<inlineGetNamespace>>],
     [name |-> "verify_namespace", schema |-> "VerifyNamespaceSchema", calls |-> <<inlineVerifyNamespace>>],
     [name |-> "get_project", schema |-> "GetProjectSchema", calls |-> <<inlineGetProject>>],
     [name |-> "list_projects", schema |-> "ListProjectsSchema", calls |-> <<listProjects>>],
     [name |-> "create_note", schema |-> "CreateNoteSchema", calls |-> <<createNote>>],
     [name |-> "list_issues", schema |-> "ListIssuesSchema", calls |-> <<listIssues>>],
     [name |-> "get_issue", schema |-> "GetIssueSchema", calls |-> <<getIssue>>],
     [name |-> "update_issue", schema |-> "UpdateIssueSchema", calls |-> <<updateIssue>>],
     [name |-> "delete_issue", schema |-> "DeleteIssueSchema", calls |-> <<deleteIssue>>],
     [name |-> "list_issue_links", schema |-> "ListIssueLinksSchema", calls |-> <<listIssueLinks>>],
     [name |-> "get_issue_link", schema |-> "GetIssueLinkSchema", calls |-> <<getIssueLink>>],
     [name |-> "create_issue_link", schema |-> "CreateIssueLinkSchema", calls |-> <<createIssueLink>>],
     [name |-> "delete_issue_link", schema |-> "DeleteIssueLinkSchema", calls |-> <<deleteIssueLink>>],
     [name |-> "list_labels", schema |-> "ListLabelsSchema", calls |-> <<listLabels>>],
     [name |-> "get_label", schema |-> "GetLabelSchema", calls |-> <<getLabel>>],
     [name |-> "create_label", schema |-> "CreateLabelSchema", calls |-> <<createLabel>>],
     [name |-> "update_label", schema |-> "UpdateLabelSchema", calls |-> <<updateLabel>>],
     [name |-> "delete_label", schema |-> "DeleteLabelSchema", calls |-> <<deleteLabel>>],
     [name |-> "list_group_projects", schema |-> "ListGroupProjectsSchema", calls |-> <<listGroupProjects>>],
     [name |-> "list_open_merge_requests", schema |-> "ListOpenMergeRequestsSchema", calls |-> <<apiMergeRequestsAll>>],
     [name |-> "get_merge_request_details", schema |-> "GetMergeRequestSchema", calls |-> <<apiMergeRequestsShow>>],
     [name |-> "get_merge_request_comments", schema |-> "GetMergeRequestCommentsSchema", calls |-> <<apiDiscussionsAll>>] >>


ToolNames == { allTools[i].name : i \in 1..Len(allTools) }
\* CaseNames of a switch that lacks its last case
CaseNames_LastMissing == { DispatchCases[i].name : i \in 1..(Len(DispatchCases) - 1) }
CaseNames == { DispatchCases[i].name : i \in 1..Len(DispatchCases) }

\* the case the switch selects for a name (the first one that matches)
DispatchCase(name) ==
  DispatchCases[CHOOSE i \in 1..Len(DispatchCases) :
                  /\ DispatchCases[i].name = name
                  /\ \A j \in 1..(i - 1) : DispatchCases[j].name # name]

\* inputSchema of the allTools entry with this name
AdvertisedSchema(name) ==
  allTools[CHOOSE i \in 1..Len(allTools) : allTools[i].name = name].inputSchema

(***************************************************************************)
(* Argument payloads and schemas.  The zod schemas live in schema.js; a    *)
(* payload is named by how it was built: "<absent>" is a request without   *)
(* an arguments object, "<malformed>" an object no schema accepts, and a   *)
(* schema name S the minimal argument set generated from S.                *)
(***************************************************************************)
Absent == "<absent>"
Malformed == "<malformed>"

\* X.parse(payload) succeeds
SchemaAccepts(schema, payload) == payload = schema

\* payloads a caller may send with a tool name
PayloadsFor(name) ==
  {Absent, Malformed} \cup
  (IF name \in CaseNames
     THEN {DispatchCase(name).schema, AdvertisedSchema(name)}
     ELSE {"GetProjectSchema"})

\* a name no case of the switch handles
UnknownName == "no_such_tool"
RequestNames == ToolNames \cup {UnknownName}

\* tools whose remote calls depend on whether the arguments carry a ref
RefTools == {"create_branch", "get_file_contents"}

\* which of the optional arguments commit_id and last_commit_id a caller
\* supplies (only create_or_update_file takes them)
SuppliedMarkers(name) ==
  IF name = "create_or_update_file"
    THEN [commit_id : BOOLEAN, last_commit_id : BOOLEAN]
    ELSE {[commit_id |-> FALSE, last_commit_id |-> FALSE]}

(***************************************************************************)
(* Remote outcomes and how the helpers classify them                       *)
(***************************************************************************)
\* ok: 2xx with a body of the expected shape; badShape: 2xx with a body the
\* response schema rejects; sNNN: that status (s403rate: 403 whose body
\* holds 'User API Key Rate limit exceeded'); network: no response at all
Outcomes ==
  {"ok", "badShape", "s400", "s403", "s403rate", "s404", "s409", "s500",
   "network"}

\* outcomes only the repository-files endpoint is given: okDir, a 2xx whose
\* body is an array of directory entries (the second member of the union
\* GitLabContentSchema); s500text, a 500 whose body holds the words
\* 'File not found'
FileOutcomes == {"okDir", "s500text"}

OutcomesFor(call) ==
  IF call.fn = "getFileContents" THEN Outcomes \cup FileOutcomes ELSE Outcomes

\* handleGitLabError(response) for a non-2xx response
handleGitLabError(outcome) ==
  IF outcome = "s403rate" THEN "RateLimit" ELSE "GitLabApiError"

\* the error a remote call ends with for an outcome, "none" if it returns
ErrorOf(call, outcome) ==
  IF outcome \in {"ok", "okDir"} THEN "none"
  ELSE IF outcome = "badShape"
    THEN (IF call.parsed THEN "ZodError" ELSE "none")
  ELSE IF outcome = "network" THEN "NetworkError"
  ELSE IF ~call.wrapped THEN "RawHttpError"
  ELSE IF outcome = call.special.status THEN call.special.error
  ELSE handleGitLabError(outcome)

\* error.message.includes('File not found') for the error a call ended with:
\* the message of the 404 branch of getFileContents starts with these words,
\* and the message handleGitLabError builds ends with the response body
MessageIncludesFileNotFound(call, outcome) ==
  \/ ErrorOf(call, outcome) = "FileNotFound"
  \/ /\ outcome = "s500text"
     /\ ErrorOf(call, outcome) = "GitLabApiError"

NoCall == Call("none", "none", FALSE, FALSE, NoSpecial)

\* remote calls of a case body that is a fixed sequence
CallsOf(name, ref) ==
  IF name = "create_branch"
    THEN (IF ref THEN << createBranch >>
                 ELSE << getDefaultBranchRef, createBranch >>)
  ELSE IF name = "get_file_contents"
    THEN (IF ref THEN << getFileContents >>
                 ELSE << getDefaultBranchRef, getFileContents >>)
  ELSE DispatchCase(name).calls

\* What the handler body of a tool does next, given the calls it has
\* completed so far: issue a call, throw, or return its result.
HandlerStep(req, done) ==
  LET name == req.name
      ref == req.ref
      n == Len(done)
      lastErr == IF n = 0 THEN "none" ELSE ErrorOf(done[n].call, done[n].outcome)
  IN
  IF name = "create_or_update_file"
    THEN (IF n = 0 THEN [kind |-> "call", call |-> getFileContents, error |-> "none"]
          ELSE IF n = 1
            THEN (IF lastErr = "none"
                    THEN [kind |-> "call",
                          call |-> writeRequest("PUT",
                                     IF done[n].outcome = "okDir"
                                       THEN NoMarkers
                                       ELSE MarkersFromFile(req)),
                          error |-> "none"]
                  ELSE IF MessageIncludesFileNotFound(done[n].call, done[n].outcome)
                    THEN [kind |-> "call",
                          call |-> writeRequest("POST", MarkersFromCaller(req)),
                          error |-> "none"]
                  ELSE [kind |-> "throw", call |-> NoCall, error |-> lastErr])
          ELSE IF lastErr # "none"
            THEN [kind |-> "throw", call |-> NoCall, error |-> lastErr]
          ELSE [kind |-> "return", call |-> NoCall, error |-> "none"])
  ELSE IF lastErr # "none"
    THEN [kind |-> "throw", call |-> NoCall, error |-> lastErr]
  ELSE IF n < Len(CallsOf(name, ref))
    THEN [kind |-> "call", call |-> CallsOf(name, ref)[n + 1], error |-> "none"]
  ELSE [kind |-> "return", call |-> NoCall, error |-> "none"]

(***************************************************************************)
(* Responses of the CallTool handler                                       *)
(***************************************************************************)
NoResponse == [kind |-> "none", error |-> "none", detail |-> "none", failure |-> FALSE]
\* return { content: [{ type: 'text', text: JSON.stringify(result) }] }
Content == [kind |-> "content", error |-> "none", detail |-> "none", failure |-> FALSE]
\* return { content: [...JSON.stringify({ error: message })] }
ContentWithError(e) ==
  [kind |-> "content", error |-> e, detail |-> "none", failure |-> TRUE]
\* the handler's promise rejects with this error
Thrown(e, d) == [kind |-> "thrown", error |-> e, detail |-> d, failure |-> TRUE]

\* the catch block of the CallTool handler
\* (d: the text the error message carries besides its fixed part)
DispatcherCatch(e, d) ==
  IF e = "ZodError" THEN Thrown("InvalidArguments", d) ELSE Thrown(e, d)

(***************************************************************************)
(* Stand-alone GitLab server: state and handlers                           *)
(***************************************************************************)
\* values of the environment variable GITLAB_READ_ONLY_MODE
ReadOnlyEnvValues == {"<unset>", "true", "false", "TRUE", "1"}

\* GITLAB_READ_ONLY_MODE that is on unless the variable is 'false'
GITLAB_READ_ONLY_MODE_DefaultOn == env.readOnly # "false"

\* const GITLAB_READ_ONLY_MODE = process.env.GITLAB_READ_ONLY_MODE === 'true'
GITLAB_READ_ONLY_MODE == env.readOnly = "true"

NoListing == << [name |-> "<no listing>", inputSchema |-> "none"] >>
NoRequest ==
  [name |-> "none", args |-> Absent, ref |-> FALSE, commit_id |-> FALSE,
   last_commit_id |-> FALSE]
NoConfig ==
  [enableTools |-> << >>, atlassianHost |-> FALSE, atlassianEmail |-> FALSE,
   atlassianToken |-> FALSE, gitlabHost |-> FALSE, gitlabToken |-> FALSE,
   githubToken |-> FALSE]

\* values of the millisecond-valued timeout argument when it is not given
NoTimeout == [given |-> FALSE, ms |-> 0]
NoInvocation ==
  [tool |-> "none", ref |-> FALSE, action |-> "none", comment |-> FALSE,
   script |-> << >>, timeoutSeconds |-> NoTimeout]
NoApi == [api |-> "none", ref |-> "none"]
NoChild ==
  [state |-> "none", spawns |-> 0, timeout |-> 0, trapsTerm |-> FALSE,
   timerFired |-> FALSE, writes |-> 0, out |-> 0, overflow |-> FALSE,
   code |-> "null", signal |-> "none"]
NoResult ==
  [error |-> "none", payload |-> "none", stdout |-> -1, exitCode |-> "absent"]

\* what one run of the CallTool handler holds: its position, its request
\* and the locals of its closure
Task(p, req, v, h, l, i, r) ==
  [pc |-> p, request |-> req, validated |-> v, handlerCalls |-> h, log |-> l,
   inflight |-> i, response |-> r]
NoTask == Task("idle", NoRequest, "none", 0, << >>, NoCall, NoResponse)

\* no tool handler has run
ToolsIdle ==
  /\ invocation = NoInvocation
  /\ tpc = "idle"
  /\ trace = << >>
  /\ pending = NoApi
  /\ child = NoChild
  /\ result = NoResult

InitGitLab ==
  /\ program = "gitlab"
  /\ env \in [token : BOOLEAN, readOnly : ReadOnlyEnvValues]
  /\ proc = "starting"
  /\ listing = NoListing
  /\ pc = "idle"
  /\ request = NoRequest
  /\ validated = "none"
  /\ handlerCalls = 0
  /\ log = << >>
  /\ inflight = NoCall
  /\ response = NoResponse
  /\ suspended = NoTask
  /\ config = NoConfig
  /\ regPc = 0
  /\ registry = << >>
  /\ warnings = {}
  /\ ToolsIdle

\* module top level: without GITLAB_PERSONAL_ACCESS_TOKEN the process exits
\* with status 1, otherwise runServer() connects the transport
StartGitLab ==
  /\ program = "gitlab"
  /\ proc = "starting"
  /\ proc' = IF env.token THEN "running" ELSE "exited"
  /\ UNCHANGED << program, gitlabVars, devkitVars >>

\* ListedTools without the read-only filter
ListedTools_Unfiltered == allTools

\* the tools a ListTools request is answered with
ListedTools ==
  IF GITLAB_READ_ONLY_MODE
    THEN SelectSeq(allTools, LAMBDA tool : tool.name \in Range(readOnlyTools))
    ELSE allTools

\* server.setRequestHandler(ListToolsRequestSchema, ...)
ListTools ==
  /\ program = "gitlab"
  /\ proc = "running"
  /\ listing' = ListedTools
  /\ UNCHANGED << program, env, proc, pc, request, validated, handlerCalls,
                  log, inflight, response, devkitVars, suspended >>

\* a CallTool request arrives (one invocation is followed to its end)
Receive(name, args, ref, ids) ==
  /\ program = "gitlab"
  /\ proc = "running"
  /\ pc \in {"idle", "done"}
  /\ request' = [name |-> name, args |-> args, ref |-> ref,
                 commit_id |-> ids.commit_id,
                 last_commit_id |-> ids.last_commit_id]
  /\ pc' = "entered"
  /\ validated' = "none"
  /\ handlerCalls' = 0
  /\ log' = << >>
  /\ inflight' = NoCall
  /\ response' = NoResponse
  /\ UNCHANGED << program, env, proc, listing, devkitVars, suspended >>

\* CheckArguments that lets an invocation without arguments reach the switch
CheckArguments_Skipped ==
  /\ pc = "entered"
  /\ pc' = "switch"
  /\ UNCHANGED << program, env, proc, listing, request, validated,
                  handlerCalls, log, inflight, response,
                  devkitVars, suspended >>

\* if (!request.params.arguments) throw new Error('Arguments are required')
CheckArguments ==
  /\ pc = "entered"
  /\ IF request.args = Absent
       THEN /\ response' = DispatcherCatch("ArgumentsRequired", "none")
            /\ pc' = "done"
       ELSE /\ pc' = "switch"
            /\ UNCHANGED response
  /\ UNCHANGED << program, env, proc, listing, request, validated,
                  handlerCalls, log, inflight, devkitVars, suspended >>

\* Switch whose default branch falls through and returns an empty result
Switch_NoDefault ==
  /\ pc = "switch"
  /\ IF request.name \in CaseNames
       THEN /\ pc' = "case"
            /\ UNCHANGED response
       ELSE /\ response' = Content
            /\ pc' = "done"
  /\ UNCHANGED << program, env, proc, listing, request, validated,
                  handlerCalls, log, inflight, devkitVars, suspended >>

\* switch (request.params.name) ... default: throw Unknown tool
Switch ==
  /\ pc = "switch"
  /\ IF request.name \in CaseNames
       THEN /\ pc' = "case"
            /\ UNCHANGED response
       ELSE /\ response' = DispatcherCatch("UnknownTool", request.name)
            /\ pc' = "done"
  /\ UNCHANGED << program, env, proc, listing, request, validated,
                  handlerCalls, log, inflight, devkitVars, suspended >>

\* ParseArguments that casts the arguments instead of parsing them
ParseArguments_Unchecked ==
  /\ pc = "case"
  /\ validated' = DispatchCase(request.name).schema
  /\ pc' = "handler"
  /\ handlerCalls' = handlerCalls + 1
  /\ UNCHANGED << program, env, proc, listing, request, log, inflight,
                  response, devkitVars, suspended >>

\* const args = XSchema.parse(request.params.arguments), first statement of
\* every case; on success the rest of the case body (the handler) runs
ParseArguments ==
  /\ pc = "case"
  /\ LET schema == DispatchCase(request.name).schema IN
     /\ validated' = schema
     /\ IF SchemaAccepts(schema, request.args)
          THEN /\ pc' = "handler"
               /\ handlerCalls' = handlerCalls + 1
               /\ UNCHANGED response
          ELSE /\ response' = DispatcherCatch("ZodError", "none")
               /\ pc' = "done"
               /\ UNCHANGED handlerCalls
  /\ UNCHANGED << program, env, proc, listing, request, log, inflight,
                  devkitVars, suspended >>

\* the handler sends its next remote request and awaits the response
IssueCall ==
  /\ pc = "handler"
  /\ LET step == HandlerStep(request, log) IN
     /\ step.kind = "call"
     /\ inflight' = step.call
  /\ pc' = "awaiting"
  /\ UNCHANGED << program, env, proc, listing, request, validated,
                  handlerCalls, log, response, devkitVars, suspended >>

\* the remote answers the request in flight
RemoteResponds(outcome) ==
  /\ pc = "awaiting"
  /\ log' = Append(log, [call |-> inflight, outcome |-> outcome])
  /\ inflight' = NoCall
  /\ pc' = "handler"
  /\ UNCHANGED << program, env, proc, listing, request, validated,
                  handlerCalls, response, devkitVars, suspended >>

\* a remote call failed: fork_repository catches it and returns the message
\* as content, every other case lets it reach the handler's catch block
HandlerThrows ==
  /\ pc = "handler"
  /\ LET step == HandlerStep(request, log) IN
     /\ step.kind = "throw"
     /\ response' = IF request.name = "fork_repository"
                      THEN ContentWithError(step.error)
                      ELSE DispatcherCatch(step.error, "none")
  /\ pc' = "done"
  /\ UNCHANGED << program, env, proc, listing, request, validated,
                  handlerCalls, log, inflight, devkitVars, suspended >>

\* return { content: [{ type: 'text', text: JSON.stringify(result) }] }
HandlerReturns ==
  /\ pc = "handler"
  /\ HandlerStep(request, log).kind = "return"
  /\ response' = Content
  /\ pc' = "done"
  /\ UNCHANGED << program, env, proc, listing, request, validated,
                  handlerCalls, log, inflight, devkitVars, suspended >>

NextGitLab ==
  \/ StartGitLab
  \/ ListTools
  \/ \E name \in RequestNames :
       \E args \in PayloadsFor(name) :
         \E ref \in (IF name \in RefTools THEN BOOLEAN ELSE {FALSE}) :
           \E ids \in SuppliedMarkers(name) :
             Receive(name, args, ref, ids)
  \/ CheckArguments
  \/ Switch
  \/ ParseArguments
  \/ IssueCall
  \/ \E outcome \in OutcomesFor(inflight) : RemoteResponds(outcome)
  \/ HandlerThrows
  \/ HandlerReturns

(***************************************************************************)
(* Grouped dev-kit server: configuration and registration                  *)
(***************************************************************************)
\* the groups registerTools() knows, in the order it registers them
Groups == << "confluence", "github", "gitlab", "jira", "script" >>

\* names each register<Group>Tools function passes to server.registerTool
ConfluenceTools ==
  << "confluence_search", "confluence_get_page", "confluence_create_page",
     "confluence_update_page" >>
GitHubTools ==
  << "github_list_repos", "github_get_repo", "github_list_prs",
     "github_get_pr_details", "github_create_pr_comment",
     "github_get_file_content", "github_create_pr", "github_pr_action",
     "github_list_issues", "github_get_issue", "github_comment_issue",
     "github_issue_action" >>
GitLabTools ==
  << "gitlab_list_projects", "gitlab_get_project", "gitlab_list_mrs",
     "gitlab_get_mr_details", "gitlab_create_MR_note",
     "gitlab_get_file_content", "gitlab_list_pipelines",
     "gitlab_list_commits", "gitlab_get_commit_details",
     "gitlab_list_user_events", "gitlab_list_group_users",
     "gitlab_create_mr" >>
JiraTools ==
  << "jira_get_issue", "jira_search_issue", "jira_list_sprints",
     "jira_create_issue", "jira_update_issue", "jira_list_statuses",
     "jira_transition_issue" >>
ScriptTools == << "execute_comand_line_script" >>

GroupTools(group) ==
  CASE group = "confluence" -> ConfluenceTools
    [] group = "github" -> GitHubTools
    [] group = "gitlab" -> GitLabTools
    [] group = "jira" -> JiraTools
    [] group = "script" -> ScriptTools

\* ENABLE_TOOLS is a comma-separated string.  It is kept as the sequence of
\* its entries; an entry is a word with or without blanks around it.  The
\* empty string is the single entry with an empty word and no blanks.
SelectorWords == Range(Groups) \cup {"", "other"}
SelectorEntries == [word : SelectorWords, pad : BOOLEAN]
Selectors == UNION { [1..n -> SelectorEntries] : n \in 1..MaxSel }
EmptyString == << [word |-> "", pad |-> FALSE] >>
Unset == << >>

\* String.prototype.trim on one entry
Trim(entry) == [word |-> entry.word, pad |-> FALSE]
\* config.enableTools.trim() === '' : only blanks, hence no comma
TrimsToEmpty(sel) == Len(sel) = 1 /\ sel[1].word = ""

\* ConfigSchema.parse: enableTools is optional with default ''
loadConfig(envEnableTools, creds) ==
  [enableTools |-> IF envEnableTools = Unset THEN EmptyString
                   ELSE envEnableTools,
   atlassianHost |-> creds.atlassianHost,
   atlassianEmail |-> creds.atlassianEmail,
   atlassianToken |-> creds.atlassianToken,
   gitlabHost |-> creds.gitlabHost,
   gitlabToken |-> creds.gitlabToken,
   githubToken |-> creds.githubToken]

\* isToolGroupEnabled without the .map(g => g.trim())
isToolGroupEnabled_NoTrim(cfg, group) ==
  IF cfg.enableTools = EmptyString \/ TrimsToEmpty(cfg.enableTools)
    THEN TRUE
    ELSE [word |-> group, pad |-> FALSE] \in Range(cfg.enableTools)

isToolGroupEnabled(cfg, group) ==
  IF cfg.enableTools = EmptyString \/ TrimsToEmpty(cfg.enableTools)
    THEN TRUE
    ELSE LET enabledGroups == [i \in 1..Len(cfg.enableTools) |->
                                 Trim(cfg.enableTools[i])]
         IN [word |-> group, pad |-> FALSE] \in Range(enabledGroups)

\* the check at the head of each register<Group>Tools function
HasCredentials(cfg, group) ==
  CASE group = "confluence" ->
         cfg.atlassianHost /\ cfg.atlassianEmail /\ cfg.atlassianToken
    [] group = "github" -> cfg.githubToken
    [] group = "gitlab" -> cfg.gitlabHost /\ cfg.gitlabToken
    [] group = "jira" ->
         cfg.atlassianHost /\ cfg.atlassianEmail /\ cfg.atlassianToken
    [] group = "script" -> TRUE

Credentials ==
  [atlassianHost : BOOLEAN, atlassianEmail : BOOLEAN, atlassianToken : BOOLEAN,
   gitlabHost : BOOLEAN, gitlabToken : BOOLEAN, githubToken : BOOLEAN]

InitDevKit ==
  /\ program = "devkit"
  /\ \E sel \in Selectors \cup {Unset} : \E creds \in Credentials :
       config = loadConfig(sel, creds)
  /\ proc = "starting"
  /\ regPc = 1
  /\ registry = << >>
  /\ warnings = {}
  /\ env = [token |-> FALSE, readOnly |-> "<unset>"]
  /\ listing = NoListing
  /\ pc = "idle"
  /\ request = NoRequest
  /\ validated = "none"
  /\ handlerCalls = 0
  /\ log = << >>
  /\ inflight = NoCall
  /\ response = NoResponse
  /\ suspended = NoTask
  /\ ToolsIdle

\* RegisterGroup in which a group without credentials ends registerTools()
RegisterGroup_StopsAtMissing ==
  /\ program = "devkit"
  /\ proc = "starting"
  /\ regPc \in 1..Len(Groups)
  /\ LET group == Groups[regPc] IN
       IF ~isToolGroupEnabled(config, group)
         THEN /\ regPc' = regPc + 1
              /\ UNCHANGED << registry, warnings >>
       ELSE IF ~HasCredentials(config, group)
         THEN /\ warnings' = warnings \cup {group}
              /\ regPc' = Len(Groups) + 1
              /\ UNCHANGED registry
       ELSE /\ registry' = registry \o GroupTools(group)
            /\ regPc' = regPc + 1
            /\ UNCHANGED warnings
  /\ UNCHANGED << program, proc, config, gitlabVars, toolVars >>

\* one `if (isToolGroupEnabled(config, g)) register<G>Tools(server, config)`
\* of registerTools(): a disabled group is passed over, an enabled group
\* without credentials warns and returns, otherwise its tools are registered
RegisterGroup ==
  /\ program = "devkit"
  /\ proc = "starting"
  /\ regPc \in 1..Len(Groups)
  /\ LET group == Groups[regPc] IN
       IF ~isToolGroupEnabled(config, group)
         THEN UNCHANGED << registry, warnings >>
       ELSE IF ~HasCredentials(config, group)
         THEN /\ warnings' = warnings \cup {group}
              /\ UNCHANGED registry
       ELSE /\ registry' = registry \o GroupTools(group)
            /\ UNCHANGED warnings
  /\ regPc' = regPc + 1
  /\ UNCHANGED << program, proc, config, gitlabVars, toolVars >>

\* startMCPServer: after registerTools() the transport is connected
StartDevKit ==
  /\ program = "devkit"
  /\ proc = "starting"
  /\ regPc = Len(Groups) + 1
  /\ proc' = "running"
  /\ UNCHANGED << program, config, regPc, registry, warnings, gitlabVars,
                  toolVars >>

NextDevKit ==
  \/ RegisterGroup
  \/ StartDevKit

(***************************************************************************)
(* Grouped dev-kit server: tool handlers.  The MCP server validates the    *)
(* arguments against the tool's `parameters` and calls its `handler`; a    *)
(* handler returns an object and reports a failure as { error: ... }.      *)
(***************************************************************************)
\* what a client call (octokit / gitbeaker) can end with: ok, a file object;
\* okDir, an array of directory entries; the rest make the client throw
ApiOutcomes == {"ok", "okDir", "s403rate", "s404", "network"}

Api(api, ref) == [api |-> api, ref |-> ref]
StepCall(api) == [kind |-> "call", api |-> api, result |-> NoResult]
StepReturn(r) == [kind |-> "return", api |-> NoApi, result |-> r]
Payload(p) == [NoResult EXCEPT !.payload = p]
ErrorResult(e) == [NoResult EXCEPT !.error = e]

\* github_get_file_content that returns a directory's entries
github_get_file_content_Listing(inv, done) ==
  IF Len(done) = 0
    THEN StepCall(Api("repos.getContent", IF inv.ref THEN "caller" ELSE "undefined"))
  ELSE IF done[1].outcome = "okDir" THEN StepReturn(Payload("listing"))
  ELSE IF done[1].outcome = "ok" THEN StepReturn(Payload("file"))
  ELSE StepReturn(ErrorResult("FailedToGetFileContent"))

\* handler of github_get_file_content: one octokit.repos.getContent call with
\* the caller's ref, undefined when the caller gave none
github_get_file_content(inv, done) ==
  IF Len(done) = 0
    THEN StepCall(Api("repos.getContent", IF inv.ref THEN "caller" ELSE "undefined"))
  ELSE IF done[1].outcome = "okDir" THEN StepReturn(ErrorResult("NotAFile"))
  ELSE IF done[1].outcome = "ok" THEN StepReturn(Payload("file"))
  ELSE StepReturn(ErrorResult("FailedToGetFileContent"))

\* handler of gitlab_get_file_content: ({ projectId, filePath, ref = 'main' }),
\* one gitlab.RepositoryFiles.show call; Buffer.from(file.content) throws for
\* a body without content
gitlab_get_file_content(inv, done) ==
  IF Len(done) = 0
    THEN StepCall(Api("RepositoryFiles.show", IF inv.ref THEN "caller" ELSE "main"))
  ELSE IF done[1].outcome = "ok" THEN StepReturn(Payload("file"))
  ELSE StepReturn(ErrorResult("FailedToGetFileContent"))

\* github_pr_action whose close posts the comment whatever became of the
\* state change
github_pr_action_CommentAnyway(inv, done) ==
  LET n == Len(done)
      failed == n > 0 /\ done[n].outcome \notin {"ok", "okDir"}
  IN
  IF inv.action = "close" /\ n = 1 /\ inv.comment
    THEN StepCall(Api("issues.createComment", "none"))
  ELSE IF failed THEN StepReturn(ErrorResult("FailedToPerformAction"))
  ELSE IF inv.action = "approve"
    THEN (IF n = 0 THEN StepCall(Api("pulls.createReview", "none"))
          ELSE StepReturn(Payload("review")))
  ELSE IF inv.action = "close"
    THEN (IF n = 0 THEN StepCall(Api("pulls.update", "none"))
          ELSE StepReturn(Payload("pullRequest")))
  ELSE StepReturn(ErrorResult("InvalidAction"))

\* handler of github_pr_action: approve is one createReview call that carries
\* the comment; close is pulls.update followed, if a comment was given, by
\* issues.createComment; one catch block around both
github_pr_action(inv, done) ==
  LET n == Len(done)
      failed == n > 0 /\ done[n].outcome \notin {"ok", "okDir"}
  IN
  IF failed THEN StepReturn(ErrorResult("FailedToPerformAction"))
  ELSE IF inv.action = "approve"
    THEN (IF n = 0 THEN StepCall(Api("pulls.createReview", "none"))
          ELSE StepReturn(Payload("review")))
  ELSE IF inv.action = "close"
    THEN (IF n = 0 THEN StepCall(Api("pulls.update", "none"))
          ELSE IF n = 1 /\ inv.comment
            THEN StepCall(Api("issues.createComment", "none"))
          ELSE StepReturn(Payload("pullRequest")))
  ELSE StepReturn(ErrorResult("InvalidAction"))

ApiTools == {"github_get_file_content", "gitlab_get_file_content", "github_pr_action"}

\* what the handler of a tool does next, given its completed client calls
ToolStep(inv, done) ==
  CASE inv.tool = "github_get_file_content" -> github_get_file_content(inv, done)
    [] inv.tool = "gitlab_get_file_content" -> gitlab_get_file_content(inv, done)
    [] inv.tool = "github_pr_action" -> github_pr_action(inv, done)

\* ---- the script tool ----
\* A script is kept as the sequence of its whitespace-separated words.
ScriptWords == {"ls", "rm", "-rf", "/", "mkfs", "dd", "if=", "wipe", "format"}
Scripts == UNION { [1..n -> ScriptWords] : n \in 0..MaxWords }

\* handler: async ({ script, timeoutSeconds = 30 })
DefaultTimeoutSeconds == 30
\* timeoutSeconds > 300
MaxTimeoutSeconds == 300
\* timeout: timeoutSeconds * 1000
MsPerSecond == 1000

\* a timeoutSeconds argument, in thousandths of a second
TimeoutMillis == {-1000, 0, 500, MaxTimeoutSeconds * MsPerSecond,
                  MaxTimeoutSeconds * MsPerSecond + 1}
TimeoutArgs == {NoTimeout} \cup { [given |-> TRUE, ms |-> m] : m \in TimeoutMillis }

\* the value of the parameter timeoutSeconds inside the handler, times 1000
TimeoutMs(arg) ==
  IF arg.given THEN arg.ms ELSE DefaultTimeoutSeconds * MsPerSecond

\* !script || script.trim() === ''
EmptyScript(script) == Len(script) = 0

\* TimeoutOutOfRange that lets zero through
TimeoutOutOfRange_ZeroAllowed(arg) ==
  TimeoutMs(arg) < 0 \/ TimeoutMs(arg) > MaxTimeoutSeconds * MsPerSecond

\* timeoutSeconds <= 0 || timeoutSeconds > 300
TimeoutOutOfRange(arg) ==
  TimeoutMs(arg) <= 0 \/ TimeoutMs(arg) > MaxTimeoutSeconds * MsPerSecond

\* [\/~] at the start of a word
RootOrHome(word) == word \in {"/", "~"}

\* the five patterns of dangerousCommands, on words
MatchesRm(script) ==
  \E i \in 1..(Len(script) - 2) :
    /\ script[i] = "rm"
    /\ script[i + 1] \in {"-r", "-rf", "--recursive"}
    /\ RootOrHome(script[i + 2])
MatchesFormat(script) ==
  \E i \in 1..(Len(script) - 1) : script[i] = "format" /\ script[i + 1] = "/"
MatchesMkfs(script) == \E i \in 1..Len(script) : script[i] = "mkfs"
MatchesDd(script) ==
  \E i \in 1..(Len(script) - 1) : script[i] = "dd" /\ script[i + 1] = "if="
MatchesWipe(script) == \E i \in 1..Len(script) : script[i] = "wipe"

\* some pattern of dangerousCommands tests true on the script
dangerousCommands(script) ==
  MatchesRm(script) \/ MatchesFormat(script) \/ MatchesMkfs(script)
    \/ MatchesDd(script) \/ MatchesWipe(script)

\* the guards of the handler, in the order of the code; "none" when the
\* script goes on to execAsync
ScriptRejection(inv) ==
  IF EmptyScript(inv.script) THEN "EmptyScript"
  ELSE IF TimeoutOutOfRange(inv.timeoutSeconds) THEN "InvalidTimeout"
  ELSE IF dangerousCommands(inv.script) THEN "DangerousScript"
  ELSE "none"

\* the object returned for a rejection: only the deny-list one has the
\* stdout, stderr and exitCode fields
RejectionResult(e) ==
  IF e = "DangerousScript"
    THEN [error |-> e, payload |-> "none", stdout |-> 0, exitCode |-> "-1"]
    ELSE ErrorResult(e)

\* maxBuffer: 1024 * 1024, in bytes
MaxBufferBytes == 1024 * 1024
\* sizes of the chunks a subprocess writes, in bytes
ChunkSizes == {MaxBufferBytes \div 2, MaxBufferBytes + 1}

\* ExecResult that looks at the signal of the closed child only
ExecResult_SignalOnly(c) ==
  IF c.code = "0" /\ c.signal = "none"
    THEN [error |-> "none", payload |-> "output", stdout |-> c.out, exitCode |-> "0"]
  ELSE IF c.signal = "SIGTERM"
    THEN [error |-> "Timeout", payload |-> "none", stdout |-> c.out, exitCode |-> "-1"]
  ELSE [error |-> "CommandFailed", payload |-> "none", stdout |-> c.out,
        exitCode |-> IF c.code = "null" THEN "-1" ELSE c.code]

\* what the handler returns once execAsync has settled for a closed child.
\* It resolves for exit code 0 without a signal and no overflow.  Otherwise
\* the catch block runs: the error of an overflow is exec's 'maxBuffer length
\* exceeded' error, which has a code and no signal; any other error is
\* 'Command failed: ...' with the code and signal of the child.  The catch
\* block tests error.signal === 'SIGTERM' first and else returns
\* error.message with exitCode: error.code || -1.
ExecResult(c) ==
  IF c.overflow
    THEN [error |-> "MaxBufferExceeded", payload |-> "none", stdout |-> c.out,
          exitCode |-> "ERR_CHILD_PROCESS_STDIO_MAXBUFFER"]
  ELSE IF c.code = "0" /\ c.signal = "none"
    THEN [error |-> "none", payload |-> "output", stdout |-> c.out, exitCode |-> "0"]
  ELSE IF c.signal = "SIGTERM"
    THEN [error |-> "Timeout", payload |-> "none", stdout |-> c.out, exitCode |-> "-1"]
  ELSE [error |-> "CommandFailed", payload |-> "none", stdout |-> c.out,
        exitCode |-> IF c.code = "null" THEN "-1" ELSE c.code]

\* invocations a client may send
Invocations ==
  { [NoInvocation EXCEPT !.tool = t, !.ref = r] :
      t \in {"github_get_file_content", "gitlab_get_file_content"}, r \in BOOLEAN }
  \cup
  { [NoInvocation EXCEPT !.tool = "github_pr_action", !.action = a, !.comment = c] :
      a \in {"approve", "close"}, c \in BOOLEAN }
  \cup
  { [NoInvocation EXCEPT !.tool = "execute_comand_line_script", !.script = sc,
                         !.timeoutSeconds = t] :
      sc \in Scripts, t \in TimeoutArgs }

\* the server calls the handler of a registered tool
Invoke(inv) ==
  /\ program = "devkit"
  /\ proc = "running"
  /\ tpc = "idle"
  /\ inv.tool \in Range(registry)
  /\ invocation' = inv
  /\ tpc' = "handler"
  /\ trace' = << >>
  /\ pending' = NoApi
  /\ child' = NoChild
  /\ result' = NoResult
  /\ UNCHANGED << program, proc, config, regPc, registry, warnings, gitlabVars >>

\* the handler calls the client and awaits
ApiCall ==
  /\ tpc = "handler"
  /\ invocation.tool \in ApiTools
  /\ LET step == ToolStep(invocation, trace) IN
     /\ step.kind = "call"
     /\ pending' = step.api
  /\ tpc' = "awaiting"
  /\ UNCHANGED << program, proc, config, regPc, registry, warnings, gitlabVars,
                  invocation, trace, child, result >>

\* the client call settles
ApiResponds(outcome) ==
  /\ tpc = "awaiting"
  /\ trace' = Append(trace, [api |-> pending, outcome |-> outcome])
  /\ pending' = NoApi
  /\ tpc' = "handler"
  /\ UNCHANGED << program, proc, config, regPc, registry, warnings, gitlabVars,
                  invocation, child, result >>

\* the handler returns its object
ToolReturns ==
  /\ tpc = "handler"
  /\ invocation.tool \in ApiTools
  /\ LET step == ToolStep(invocation, trace) IN
     /\ step.kind = "return"
     /\ result' = step.result
  /\ tpc' = "done"
  /\ UNCHANGED << program, proc, config, regPc, registry, warnings, gitlabVars,
                  invocation, trace, pending, child >>

\* ScriptStart that runs the deny-list after the subprocess was started
ScriptStart_SpawnFirst(traps) ==
  /\ tpc = "handler"
  /\ invocation.tool = "execute_comand_line_script"
  /\ LET e == ScriptRejection(invocation) IN
       IF e \in {"EmptyScript", "InvalidTimeout"}
         THEN /\ result' = RejectionResult(e)
              /\ tpc' = "done"
              /\ UNCHANGED child
       ELSE IF e = "DangerousScript"
         THEN /\ result' = RejectionResult(e)
              /\ tpc' = "done"
              /\ child' = [NoChild EXCEPT !.state = "closed", !.spawns = 1,
                                          !.signal = "SIGKILL"]
       ELSE /\ child' = [NoChild EXCEPT !.state = "running", !.spawns = 1,
                                        !.timeout = TimeoutMs(invocation.timeoutSeconds),
                                        !.trapsTerm = traps]
            /\ tpc' = "exec"
            /\ UNCHANGED result
  /\ UNCHANGED << program, proc, config, regPc, registry, warnings, gitlabVars,
                  invocation, trace, pending >>

\* the handler of execute_comand_line_script up to its await: the three
\* guards, then execAsync(script, { timeout, maxBuffer }) starts a shell
\* (traps: whether the script ignores SIGTERM)
ScriptStart(traps) ==
  /\ tpc = "handler"
  /\ invocation.tool = "execute_comand_line_script"
  /\ LET e == ScriptRejection(invocation) IN
       IF e # "none"
         THEN /\ result' = RejectionResult(e)
              /\ tpc' = "done"
              /\ UNCHANGED child
         ELSE /\ child' = [NoChild EXCEPT !.state = "running", !.spawns = 1,
                                          !.timeout = TimeoutMs(invocation.timeoutSeconds),
                                          !.trapsTerm = traps]
              /\ tpc' = "exec"
              /\ UNCHANGED result
  /\ UNCHANGED << program, proc, config, regPc, registry, warnings, gitlabVars,
                  invocation, trace, pending >>

\* the subprocess writes a chunk and exec buffers it; a chunk that takes the
\* buffered length past maxBuffer is cut at maxBuffer, and exec records the
\* overflow and calls kill(), which sends SIGTERM; after kill() exec has
\* destroyed the streams and buffers no more
ChildWrites(size) ==
  /\ tpc = "exec"
  /\ child.state = "running"
  /\ ~child.timerFired
  /\ ~child.overflow
  /\ child.writes < MaxOut
  /\ child' =
       IF child.out + size <= MaxBufferBytes
         THEN [child EXCEPT !.writes = @ + 1, !.out = @ + size]
       ELSE IF child.trapsTerm
         THEN [child EXCEPT !.writes = @ + 1, !.out = MaxBufferBytes,
                            !.overflow = TRUE]
       ELSE [child EXCEPT !.writes = @ + 1, !.out = MaxBufferBytes,
                          !.overflow = TRUE, !.state = "closed",
                          !.signal = "SIGTERM"]
  /\ UNCHANGED << program, proc, config, regPc, registry, warnings, gitlabVars,
                  invocation, tpc, trace, pending, result >>

\* the subprocess exits by itself with an exit code
ChildExits(code) ==
  /\ tpc = "exec"
  /\ child.state = "running"
  /\ child' = [child EXCEPT !.state = "closed", !.code = code]
  /\ UNCHANGED << program, proc, config, regPc, registry, warnings, gitlabVars,
                  invocation, tpc, trace, pending, result >>

\* the timer of exec's timeout option fires while the subprocess runs:
\* child.kill(killSignal), and no killSignal option means SIGTERM
TimerFires ==
  /\ tpc = "exec"
  /\ child.state = "running"
  /\ ~child.timerFired
  /\ child' = IF child.trapsTerm
                THEN [child EXCEPT !.timerFired = TRUE]
                ELSE [child EXCEPT !.timerFired = TRUE, !.state = "closed",
                                   !.signal = "SIGTERM"]
  /\ UNCHANGED << program, proc, config, regPc, registry, warnings, gitlabVars,
                  invocation, tpc, trace, pending, result >>

\* another process signals the subprocess
ExternalSignal(sig) ==
  /\ tpc = "exec"
  /\ child.state = "running"
  /\ ~(sig = "SIGTERM" /\ child.trapsTerm)
  /\ child' = [child EXCEPT !.state = "closed", !.signal = sig]
  /\ UNCHANGED << program, proc, config, regPc, registry, warnings, gitlabVars,
                  invocation, tpc, trace, pending, result >>

\* execAsync settles and the handler returns
ExecSettles ==
  /\ tpc = "exec"
  /\ child.state = "closed"
  /\ result' = ExecResult(child)
  /\ tpc' = "done"
  /\ UNCHANGED << program, proc, config, regPc, registry, warnings, gitlabVars,
                  invocation, trace, pending, child >>

\* the server has sent the returned object; the handler keeps nothing
Respond ==
  /\ tpc = "done"
  /\ invocation' = NoInvocation
  /\ tpc' = "idle"
  /\ trace' = << >>
  /\ pending' = NoApi
  /\ child' = NoChild
  /\ result' = NoResult
  /\ UNCHANGED << program, proc, config, regPc, registry, warnings, gitlabVars >>

NextTools ==
  \/ tpc = "idle" /\ \E inv \in Invocations : Invoke(inv)
  \/ Respond
  \/ ApiCall
  \/ \E outcome \in ApiOutcomes : ApiResponds(outcome)
  \/ ToolReturns
  \/ \E traps \in BOOLEAN : ScriptStart(traps)
  \/ \E size \in ChunkSizes : ChildWrites(size)
  \/ \E code \in {"0", "1"} : ChildExits(code)
  \/ TimerFires
  \/ \E sig \in {"SIGTERM", "SIGKILL"} : ExternalSignal(sig)
  \/ ExecSettles

\* configurations the tool handlers are followed under: no selector, and
\* either every credential or none
AllCredentials == [f \in DOMAIN NoConfig \ {"enableTools"} |-> TRUE]
NoCredentials == [f \in DOMAIN NoConfig \ {"enableTools"} |-> FALSE]

InitTools ==
  /\ program = "devkit"
  /\ \E creds \in {AllCredentials, NoCredentials} :
       config = loadConfig(Unset, creds)
  /\ proc = "starting"
  /\ regPc = 1
  /\ registry = << >>
  /\ warnings = {}
  /\ env = [token |-> FALSE, readOnly |-> "<unset>"]
  /\ listing = NoListing
  /\ pc = "idle"
  /\ request = NoRequest
  /\ validated = "none"
  /\ handlerCalls = 0
  /\ log = << >>
  /\ inflight = NoCall
  /\ response = NoResponse
  /\ suspended = NoTask
  /\ ToolsIdle

\* names, and remote outcomes, two concurrent invocations are followed with
ConcurrentNames == {"get_file_contents", "create_or_update_file", "create_issue", UnknownName}
ConcurrentOutcomes == {"ok", "badShape", "s404", "s500", "network"}

\* Yield under which the two invocations share one call log
Yield_SharedLog ==
  /\ program = "gitlab"
  /\ proc = "running"
  /\ pc \in {"idle", "awaiting", "done"}
  /\ suspended' = Task(pc, request, validated, handlerCalls, << >>, inflight, response)
  /\ pc' = suspended.pc
  /\ request' = suspended.request
  /\ validated' = suspended.validated
  /\ handlerCalls' = suspended.handlerCalls
  /\ inflight' = suspended.inflight
  /\ response' = suspended.response
  /\ UNCHANGED << program, env, proc, listing, log, devkitVars >>

\* The handler is an async function: a run of it keeps hold of the thread
\* until it awaits a remote call or ends, and then the event loop may turn
\* to another run, a new request or the settled call of an earlier one.
\* Each run has its own request and locals.
Yield ==
  /\ program = "gitlab"
  /\ proc = "running"
  /\ pc \in {"idle", "awaiting", "done"}
  /\ suspended' = Task(pc, request, validated, handlerCalls, log, inflight, response)
  /\ pc' = suspended.pc
  /\ request' = suspended.request
  /\ validated' = suspended.validated
  /\ handlerCalls' = suspended.handlerCalls
  /\ log' = suspended.log
  /\ inflight' = suspended.inflight
  /\ response' = suspended.response
  /\ UNCHANGED << program, env, proc, listing, devkitVars >>

\* the stand-alone GitLab server with two invocations in progress at once
ConcurrentNext ==
  \/ StartGitLab
  \/ ListTools
  \/ \E name \in ConcurrentNames :
       \E args \in PayloadsFor(name) :
         \E ref \in (IF name \in RefTools THEN BOOLEAN ELSE {FALSE}) :
           \E ids \in SuppliedMarkers(name) :
             Receive(name, args, ref, ids)
  \/ CheckArguments
  \/ Switch
  \/ ParseArguments
  \/ IssueCall
  \/ \E outcome \in OutcomesFor(inflight) \cap ConcurrentOutcomes :
       RemoteResponds(outcome)
  \/ HandlerThrows
  \/ HandlerReturns
  \/ Yield

(***************************************************************************)
(* Specification                                                           *)
(***************************************************************************)
Init == InitGitLab \/ InitDevKit

Next == NextGitLab \/ NextDevKit

Spec == Init /\ [][Next]_vars

\* the grouped server followed from its start through the handlers of its
\* file-content, pull-request and script tools
ToolsNext == NextDevKit \/ NextTools

ToolsSpec == InitTools /\ [][ToolsNext]_vars

\* either server, each followed through its handlers
ServersInit == InitGitLab \/ InitTools

ServersNext == NextGitLab \/ ToolsNext

ServersSpec == ServersInit /\ [][ServersNext]_vars

\* the stand-alone GitLab server under concurrent requests
ConcurrentSpec == InitGitLab /\ [][ConcurrentNext]_vars

(***************************************************************************)
(* Properties                                                              *)
(***************************************************************************)
Mutating == {"POST", "PUT", "DELETE"}
KnownTool == request.name \in CaseNames
ArgsPresent == request.args # Absent
\* the arguments pass the schema the tool's dispatch case parses them with
ArgsValid ==
  /\ KnownTool
  /\ SchemaAccepts(DispatchCase(request.name).schema, request.args)
RemoteTouched == log # << >> \/ inflight # NoCall \/ pc = "awaiting"

\* C1: arguments that fail the tool's schema end the invocation with
\* InvalidArgumentsError without the handler being entered, and in every
\* state in which the handler or a remote call of an invocation has started,
\* the arguments of that invocation have already been parsed successfully
\* with the tool's schema.
C1_ValidationPrecedesHandler ==
  /\ (handlerCalls > 0 \/ RemoteTouched) =>
       (KnownTool /\ validated = DispatchCase(request.name).schema /\ ArgsValid)
  /\ (pc = "done" /\ KnownTool /\ ArgsPresent /\ ~ArgsValid) =>
       (/\ response = Thrown("InvalidArguments", "none")
        /\ handlerCalls = 0
        /\ ~RemoteTouched)

\* C1 witness: an invocation of a known tool with a malformed argument
\* object has been rejected as InvalidArguments.
C1_Witness ==
  /\ pc = "done" /\ KnownTool /\ request.args = Malformed
  /\ response.error = "InvalidArguments"

\* C2 (as stated): every invocation of a name that has no dispatch case ends
\* with UnknownToolError carrying that name, and makes no remote call.
C2_UnknownToolAlways ==
  (program = "gitlab" /\ pc = "done" /\ ~KnownTool) =>
    (response = Thrown("UnknownTool", request.name) /\ ~RemoteTouched)

\* C2 (amended): an invocation of a name that has no dispatch case never
\* makes a remote call; when it carries an arguments object it ends with
\* UnknownToolError carrying that name, and when it carries none it ends with
\* the 'Arguments are required' error.
C2_UnknownTool ==
  (program = "gitlab" /\ request # NoRequest /\ ~KnownTool) =>
    /\ ~RemoteTouched
    /\ handlerCalls = 0
    /\ pc = "done" =>
         response = IF ArgsPresent
                      THEN Thrown("UnknownTool", request.name)
                      ELSE Thrown("ArgumentsRequired", "none")

\* C2 witness: an invocation of an unknown name with an arguments object
\* has ended with UnknownTool.
C2_Witness ==
  /\ pc = "done" /\ request.name = UnknownName /\ ArgsPresent
  /\ response.error = "UnknownTool"

\* the handler body of the current invocation failed
HandlerFailed ==
  /\ KnownTool /\ handlerCalls > 0
  /\ HandlerStep(request, log).kind = "throw"

\* C3 (as stated): a handler failure of a well-formed invocation is never
\* raised past the dispatcher; the invocation ends with a returned response.
C3_NoFaultPastDispatcher ==
  (pc = "done" /\ ArgsPresent /\ HandlerFailed) => response.kind # "thrown"

\* C4 (as stated): no response reports a failure inside a success-content
\* block.
C4_ContentXorError ==
  pc = "done" => ~(response.kind = "content" /\ response.failure)

\* C5: in read-only mode every listed tool is in the read-only table; with
\* read-only mode off the listing is the whole tool list.
C5_ReadOnlyListing ==
  listing # NoListing =>
    IF env.readOnly = "true"
      THEN \A i \in 1..Len(listing) : listing[i].name \in Range(readOnlyTools)
      ELSE listing = allTools

\* C5 witness: a listing was produced in read-only mode and it is not empty.
C5_Witness ==
  listing # NoListing /\ env.readOnly = "true" /\ Len(listing) > 0

\* C6 (as stated): in read-only mode an invocation of a tool that is not in
\* the read-only table never has a mutating remote request in flight.
C6_ReadOnlyBlocksWriteInvocation ==
  (env.readOnly = "true" /\ request.name \in ToolNames \ Range(readOnlyTools))
    => /\ inflight.method \notin Mutating
       /\ (pc = "done" /\ ArgsValid) => response.error = "PolicyRejection"

RegistrationDone == program = "devkit" /\ regPc = Len(Groups) + 1
\* the selector is the empty string or blanks only (an unset one is loaded
\* as the empty string)
SelectorEmpty == Len(config.enableTools) = 1 /\ config.enableTools[1].word = ""
\* every entry of the selector is the name of this group
SelectorNames(group) ==
  \A i \in 1..Len(config.enableTools) : config.enableTools[i].word = group
\* the tools of all groups, in registration order
RECURSIVE ToolsOfGroups(_)
ToolsOfGroups(groups) ==
  IF groups = << >> THEN << >>
  ELSE GroupTools(Head(groups)) \o ToolsOfGroups(Tail(groups))
Configured(groups) == SelectSeq(groups, LAMBDA g : HasCredentials(config, g))

\* C7 (as stated): with an empty selector every group's tools are
\* registered, and with a selector naming exactly one group exactly that
\* group's tools are registered.
C7_SelectorAlone ==
  RegistrationDone =>
    /\ SelectorEmpty => registry = ToolsOfGroups(Groups)
    /\ \A i \in 1..Len(Groups) :
         SelectorNames(Groups[i]) => registry = GroupTools(Groups[i])

\* C7 (amended): with an empty selector the tools of every group whose
\* credentials are configured are registered; with a selector naming exactly
\* one group, exactly that group's tools are registered when its
\* credentials are configured and no tool at all when they are not.
C7_GroupFiltering ==
  RegistrationDone =>
    /\ SelectorEmpty => registry = ToolsOfGroups(Configured(Groups))
    /\ \A i \in 1..Len(Groups) :
         SelectorNames(Groups[i]) =>
           registry = ToolsOfGroups(Configured(<< Groups[i] >>))

\* C7 witness: registration has finished under a selector that names one
\* group with blanks around the name, and that group's tools are registered.
C7_Witness ==
  /\ RegistrationDone
  /\ config.enableTools = << [word |-> "github", pad |-> TRUE] >>
  /\ registry = GitHubTools

\* C8 (as stated): under every configuration absent credentials are not
\* fatal: no program of the repository exits at start-up.
C8_NeverFatal == proc # "exited"

\* the groups registerTools() has already passed
Passed == { Groups[i] : i \in 1..(regPc - 1) }
\* the selector lets this group through
Selected(group) ==
  SelectorEmpty \/ \E i \in 1..Len(config.enableTools) :
                     config.enableTools[i].word = group

\* C8 (amended): in the grouped server a group whose credentials are absent
\* registers none of its tools and logs a warning, the process goes on, and
\* every other selected group with credentials is registered in full; the
\* stand-alone GitLab server exits exactly when its access token is absent.
C8_MissingCredentialsSkipGroup ==
  /\ program = "devkit" =>
       /\ proc # "exited"
       /\ \A g \in Passed :
            IF Selected(g) /\ HasCredentials(config, g)
              THEN Range(GroupTools(g)) \subseteq Range(registry)
              ELSE /\ Range(GroupTools(g)) \cap Range(registry) = {}
                   /\ (Selected(g) <=> g \in warnings)
       /\ proc = "running" => regPc = Len(Groups) + 1
  /\ (program = "gitlab" /\ proc # "starting") =>
       proc = IF env.token THEN "running" ELSE "exited"

\* C8 witness: the grouped server is running, a group was skipped for want
\* of credentials, and a group after it in registration order is registered.
C8_Witness ==
  /\ program = "devkit" /\ proc = "running"
  /\ "github" \in warnings
  /\ Range(JiraTools) \subseteq Range(registry)

\* C9 (as stated): an invocation whose arguments are valid for the tool's
\* schema enters the handler exactly once and is never rejected as
\* InvalidArguments.
C9_ValidArgsNeverRejected ==
  (pc = "done" /\ ArgsValid) =>
    (handlerCalls = 1 /\ response.error # "InvalidArguments")

\* C10 (as stated): the schema a tool's arguments are validated against is
\* the schema the listing advertises for that tool.
C10_AdvertisedSchemaIsValidated ==
  (KnownTool /\ validated # "none") =>
    validated = AdvertisedSchema(request.name)

(***************************************************************************)
(* File tools, remote errors, composite operations, script execution       *)
(***************************************************************************)
\* names of the remote calls an invocation has completed, in order
CallSequence ==
  IF program = "gitlab"
    THEN [i \in 1..Len(log) |-> log[i].call.fn]
    ELSE [i \in 1..Len(trace) |-> trace[i].api.api]

\* calls that ask the remote for a repository's default branch
DefaultBranchLookups == {"getDefaultBranchRef"}
\* calls that fetch the content of a path
ContentFetches == {"getFileContents", "repos.getContent", "RepositoryFiles.show"}

\* a get-file-contents invocation whose arguments carry no ref has returned
\* the file
FetchedWithoutRef ==
  \/ /\ program = "gitlab" /\ pc = "done"
     /\ request.name = "get_file_contents" /\ ~request.ref
     /\ response = Content
  \/ /\ program = "devkit" /\ tpc = "done"
     /\ invocation.tool \in {"github_get_file_content", "gitlab_get_file_content"}
     /\ ~invocation.ref
     /\ result.payload = "file"

\* C11: a get-file-contents invocation without a ref makes exactly one
\* default-branch lookup and then exactly one content fetch, in that order.
C11_LookupThenFetch ==
  FetchedWithoutRef =>
    /\ Len(CallSequence) = 2
    /\ CallSequence[1] \in DefaultBranchLookups
    /\ CallSequence[2] \in ContentFetches

\* completed requests of createOrUpdateFile with this method
WritesWith(method) ==
  { i \in 1..Len(log) :
      log[i].call.fn = "createOrUpdateFile" /\ log[i].call.method = method }
Creates == WritesWith("POST")
Updates == WritesWith("PUT")

\* a create_or_update_file invocation has ended after its existence read
FileWriteEnded ==
  /\ program = "gitlab" /\ pc = "done"
  /\ request.name = "create_or_update_file"
  /\ Len(log) >= 1

\* C12: create_or_update_file on a file that does not exist makes exactly
\* one create request (POST) and no update request; on a file that exists
\* it makes the read and after it exactly one update request (PUT) and no
\* create request.
C12_CreateOrUpdate ==
  FileWriteEnded =>
    /\ log[1].call.fn = "getFileContents"
    /\ log[1].outcome = "s404" =>
         (Cardinality(Creates) = 1 /\ Updates = {} /\ Creates = {2})
    /\ log[1].outcome = "ok" =>
         (Cardinality(Updates) = 1 /\ Creates = {} /\ Updates = {2})

C12_Witness ==
  /\ FileWriteEnded
  /\ log[1].outcome = "ok"
  /\ Updates = {2}
  /\ log[2].outcome = "ok"
  /\ response = Content

\* the existence read of a create_or_update_file invocation has failed, and
\* not with status 404
ReadFailedOtherwise ==
  /\ program = "gitlab"
  /\ request.name = "create_or_update_file"
  /\ Len(log) >= 1
  /\ log[1].call.fn = "getFileContents"
  /\ log[1].outcome \notin {"ok", "okDir", "s404"}

\* C13: when the existence read of create_or_update_file fails with anything
\* other than not-found, the failure reaches the caller and no create or
\* update request is issued.
C13_OtherReadFailurePropagates ==
  ReadFailedOtherwise =>
    /\ inflight.fn # "createOrUpdateFile"
    /\ Creates = {} /\ Updates = {}
    /\ pc = "done" => response.kind = "thrown"

\* the create requests sent after the existence read reported not-found
CreatesAfterNotFound ==
  IF /\ program = "gitlab" /\ request.name = "create_or_update_file"
     /\ Len(log) >= 1 /\ log[1].outcome = "s404"
    THEN { log[i].call : i \in Creates } \cup
         (IF inflight.fn = "createOrUpdateFile" /\ inflight.method = "POST"
            THEN {inflight} ELSE {})
    ELSE {}

\* C14 as stated: after a not-found read the create request carries neither
\* commit_id nor last_commit_id, whatever the caller supplied.
C14_CreateWithoutMarkers ==
  \A c \in CreatesAfterNotFound : c.body = NoMarkers

\* C14: after a not-found read the create request carries no revision
\* marker of the file; it carries commit_id exactly when the caller supplied
\* commit_id, and last_commit_id exactly when the caller supplied
\* last_commit_id.
C14_CreateCarriesCallerMarkers ==
  \A c \in CreatesAfterNotFound :
    /\ c.body.commit_id = (IF request.commit_id THEN "caller" ELSE "none")
    /\ c.body.last_commit_id =
         (IF request.last_commit_id THEN "caller" ELSE "none")

C14_Witness ==
  /\ pc = "done"
  /\ request.commit_id /\ ~request.last_commit_id
  /\ \E c \in CreatesAfterNotFound :
       c.body = [commit_id |-> "caller", last_commit_id |-> "none"]
  /\ response = Content

\* a get-file-contents invocation has ended whose content fetch was answered
\* with the entries of a directory
DirectoryFetched(tool) ==
  IF tool = "get_file_contents"
    THEN /\ program = "gitlab" /\ pc = "done"
         /\ request.name = tool
         /\ Len(log) >= 1
         /\ log[Len(log)].call.fn = "getFileContents"
         /\ log[Len(log)].outcome = "okDir"
    ELSE /\ program = "devkit" /\ tpc = "done"
         /\ invocation.tool = tool
         /\ Len(trace) = 1
         /\ trace[1].outcome = "okDir"

\* C15 as stated: on every source-hosting backend a get-file-contents
\* invocation for a directory path ends in the distinct not-a-file error and
\* never returns the listing as its payload.
C15_DirectoryIsNotAFile ==
  /\ DirectoryFetched("get_file_contents") =>
       (response.failure /\ response.error = "NotAFile")
  /\ \A tool \in {"github_get_file_content", "gitlab_get_file_content"} :
       DirectoryFetched(tool) => result.error = "NotAFile"

\* C15: github_get_file_content answers a directory path with the distinct
\* error 'Path points to a directory, not a file' and no payload;
\* gitlab_get_file_content answers it with the generic 'Failed to get file
\* content' error; get_file_contents of the stand-alone GitLab server
\* returns the directory listing as its success payload.
C15_DirectoryPerBackend ==
  /\ DirectoryFetched("github_get_file_content") =>
       (result.error = "NotAFile" /\ result.payload = "none")
  /\ DirectoryFetched("gitlab_get_file_content") =>
       (result.error = "FailedToGetFileContent" /\ result.payload = "none")
  /\ DirectoryFetched("get_file_contents") => response = Content

C15_Witness ==
  /\ DirectoryFetched("github_get_file_content")
  /\ result.error = "NotAFile"

\* an invocation has ended whose last remote call was answered with status
\* 403 and the rate-limit signature in the body
RateLimited ==
  \/ /\ program = "gitlab" /\ pc = "done"
     /\ Len(log) >= 1 /\ log[Len(log)].outcome = "s403rate"
  \/ /\ program = "devkit" /\ tpc = "done"
     /\ Len(trace) >= 1 /\ trace[Len(trace)].outcome = "s403rate"

\* C16: whatever the tool and the remote call, a 403 response with the
\* rate-limit signature is reported as the rate-limit error, never as a
\* generic one.
C16_RateLimitClassified ==
  RateLimited =>
    IF program = "gitlab" THEN response.error = "RateLimit"
                          ELSE result.error = "RateLimit"

\* a close with a comment has ended: the state change succeeded and the
\* comment call after it failed
CommentFailedAfterClose ==
  /\ program = "devkit" /\ tpc = "done"
  /\ invocation.tool = "github_pr_action"
  /\ Len(trace) = 2
  /\ trace[1].api.api = "pulls.update" /\ trace[1].outcome = "ok"
  /\ trace[2].api.api = "issues.createComment"
  /\ trace[2].outcome \notin {"ok", "okDir"}

\* C17: when the state change of the approve-or-close action succeeded and
\* the comment call after it failed, the returned object reports a partial
\* success, not a total failure.
C17_PartialSuccessReported ==
  CommentFailedAfterClose => result.error = "PartialSuccess"

\* the script tool is handling an invocation
ScriptInvoked ==
  /\ program = "devkit"
  /\ invocation.tool = "execute_comand_line_script"
ScriptEnded == ScriptInvoked /\ tpc = "done"

\* C18 as stated: an invocation whose script matches the deny-list returns
\* the dangerous-script error and starts no subprocess.
C18_DangerousAlwaysReported ==
  (ScriptInvoked /\ dangerousCommands(invocation.script)) =>
    /\ child.spawns = 0
    /\ tpc = "done" => result.error = "DangerousScript"

\* C18: an invocation whose script matches the deny-list never starts a
\* subprocess; it returns the dangerous-script error when its timeout is in
\* range or omitted, and the invalid-timeout error when its timeout is out
\* of range.
C18_DangerousNeverSpawns ==
  (ScriptInvoked /\ dangerousCommands(invocation.script)) =>
    /\ child.spawns = 0
    /\ tpc = "done" =>
         result.error = (IF TimeoutOutOfRange(invocation.timeoutSeconds)
                           THEN "InvalidTimeout" ELSE "DangerousScript")

C18_Witness ==
  /\ ScriptEnded
  /\ invocation.script = << "rm", "-rf", "/" >>
  /\ invocation.timeoutSeconds = NoTimeout
  /\ result.error = "DangerousScript"
  /\ child.spawns = 0

\* the timeout the caller supplied is <= 0 or > 300 seconds
SuppliedOutOfRange ==
  /\ invocation.timeoutSeconds.given
  /\ \/ invocation.timeoutSeconds.ms <= 0
     \/ invocation.timeoutSeconds.ms > 300 * 1000
\* the timeout the caller supplied is > 0 and <= 300 seconds
SuppliedInRange ==
  /\ invocation.timeoutSeconds.given
  /\ invocation.timeoutSeconds.ms > 0
  /\ invocation.timeoutSeconds.ms <= 300 * 1000

\* C19 as stated: an omitted timeout is 30 seconds; every supplied timeout
\* t <= 0 or t > 300 is rejected with the invalid-timeout error before any
\* subprocess starts; every supplied timeout 0 < t <= 300 is accepted.
C19_TimeoutRange ==
  ScriptInvoked =>
    /\ (~invocation.timeoutSeconds.given /\ child.spawns > 0) =>
         child.timeout = 30 * 1000
    /\ SuppliedOutOfRange =>
         (child.spawns = 0 /\ (tpc = "done" => result.error = "InvalidTimeout"))
    /\ (SuppliedInRange /\ tpc = "done") => result.error # "InvalidTimeout"

\* C19: an omitted timeout is 30 seconds; for a script that is not empty,
\* every supplied timeout t <= 0 or t > 300 is rejected with the
\* invalid-timeout error before any subprocess starts (an empty script is
\* rejected as empty whatever its timeout); every supplied timeout
\* 0 < t <= 300 is accepted and is the timeout the subprocess runs under.
C19_TimeoutRangeNonEmpty ==
  ScriptInvoked =>
    /\ (~invocation.timeoutSeconds.given /\ child.spawns > 0) =>
         child.timeout = 30 * 1000
    /\ SuppliedOutOfRange =>
         /\ child.spawns = 0
         /\ tpc = "done" =>
              result.error = (IF invocation.script = << >>
                                THEN "EmptyScript" ELSE "InvalidTimeout")
    /\ SuppliedInRange =>
         /\ tpc = "done" => result.error # "InvalidTimeout"
         /\ child.spawns > 0 => child.timeout = invocation.timeoutSeconds.ms

C19_Witness ==
  /\ ScriptEnded
  /\ invocation.script = << "ls" >>
  /\ invocation.timeoutSeconds = [given |-> TRUE, ms |-> 0]
  /\ result.error = "InvalidTimeout"
  /\ child.spawns = 0

\* C20: a subprocess still running when the timeout elapses is terminated,
\* and the handler returns the timeout error with the output captured up
\* to then.
C20_TimeoutTerminates ==
  (ScriptInvoked /\ child.timerFired) =>
    /\ child.state = "closed"
    /\ tpc = "done" =>
         (result.error = "Timeout" /\ result.stdout = child.out)

\* the same for a subprocess that does not ignore SIGTERM
TimeoutTerminatesUnlessTrapped ==
  (ScriptInvoked /\ child.timerFired /\ ~child.trapsTerm) =>
    /\ child.state = "closed"
    /\ tpc = "done" =>
         (result.error = "Timeout" /\ result.stdout = child.out)

(***************************************************************************)
(* Script results, defaults, dispatch order, concurrency, tool tables      *)
(***************************************************************************)
\* the subprocess of a finished script invocation ended by itself
ExitedByItself ==
  /\ ScriptEnded
  /\ child.state = "closed"
  /\ child.signal = "none"
  /\ ~child.overflow

\* C21: a subprocess that completes with a nonzero exit status is reported
\* as data (output and exit status) and not as an error, and exit status 0
\* is returned only when the subprocess completed successfully.
C21_NonzeroExitIsData ==
  /\ ExitedByItself =>
       /\ result.error = "none"
       /\ result.exitCode = child.code
       /\ result.stdout = child.out
  /\ (ScriptEnded /\ result.exitCode = "0") =>
       (child.code = "0" /\ child.signal = "none" /\ ~child.overflow)

\* C22: when the output of the subprocess exceeds the buffer cap the handler
\* returns an object that carries the output cut at the cap and the
\* 'maxBuffer length exceeded' error, never the timeout error and never the
\* 'Command failed' error.
C22_OverflowLabelled ==
  (ScriptEnded /\ child.overflow) =>
    /\ result.error = "MaxBufferExceeded"
    /\ result.error \notin {"Timeout", "CommandFailed", "none"}
    /\ result.stdout = 1024 * 1024

C22_Witness ==
  /\ ScriptEnded
  /\ child.overflow
  /\ child.signal = "SIGTERM"
  /\ result.error = "MaxBufferExceeded"

\* names of the tools of the last listing
ListedNames == { listing[i].name : i \in 1..Len(listing) }

C24_InvalidArgumentsBeforeRemote ==
  (program = "gitlab" /\ pc = "done" /\ response.error = "InvalidArguments") =>
    (log = << >> /\ handlerCalls = 0)

\* C25 (as stated): the name is resolved before the arguments are looked at,
\* so an invocation ends with an error about its arguments only when its name
\* has a dispatch case; an unknown name ends with UnknownToolError whatever
\* the payload, an absent one included.
C25_NameBeforeArguments ==
  (program = "gitlab" /\ pc = "done" /\ ~RemoteTouched /\
   response.error \in {"ArgumentsRequired", "InvalidArguments"}) =>
    request.name \in {c.name : c \in Range(DispatchCases)}

\* C25 (amended): the steps of an invocation are, in this order, the test
\* that an arguments object is present, the resolution of the name, the
\* validation of the arguments against the tool's schema, and the handler.
\* An invocation without arguments ends with 'Arguments are required' before
\* its name is resolved; an unknown name with an arguments object ends with
\* UnknownToolError whatever the object holds; the arguments are validated
\* only after the name has resolved, and the handler runs only after the
\* arguments have passed.
C25_PresenceNameArgumentsHandler ==
  program = "gitlab" =>
    /\ pc \in {"switch", "case", "handler", "awaiting"} => ArgsPresent
    /\ pc \in {"case", "handler", "awaiting"} => KnownTool
    /\ validated # "none" => (KnownTool /\ ArgsPresent)
    /\ (handlerCalls > 0 \/ RemoteTouched) => (validated # "none" /\ ArgsValid)
    /\ (pc = "done" /\ ~ArgsPresent) =>
         (response = Thrown("ArgumentsRequired", "none") /\ validated = "none")
    /\ (pc = "done" /\ ArgsPresent /\ ~KnownTool) =>
         (response = Thrown("UnknownTool", request.name) /\ validated = "none")

\* C25 witness: an unknown name sent with arguments that no schema accepts
\* has ended with UnknownToolError, the arguments never validated.
C25_Witness ==
  /\ pc = "done" /\ request.name = UnknownName /\ request.args = Malformed
  /\ response.error = "UnknownTool" /\ validated = "none"

\* the calls of the current tool invocation to the named client method,
\* settled or pending
SettledCalls(api) == { i \in 1..Len(trace) : trace[i].api.api = api }
CallPending(api) == tpc = "awaiting" /\ pending.api = api

\* C26: when a pull request is closed with a comment, the comment call is
\* issued only after the state-change call has returned successfully: while
\* the state change is pending no comment call exists, the two are never
\* pending together, and after a failed state change no comment call is ever
\* issued.
C26_CommentAfterStateChange ==
  (program = "devkit" /\ invocation.tool = "github_pr_action" /\
   invocation.action = "close") =>
    /\ (CallPending("issues.createComment") \/
        SettledCalls("issues.createComment") # {}) =>
         /\ invocation.comment
         /\ Len(trace) >= 1
         /\ trace[1].api.api = "pulls.update"
         /\ trace[1].outcome \in {"ok", "okDir"}
         /\ SettledCalls("issues.createComment") \subseteq {2}
    /\ CallPending("pulls.update") =>
         (trace = << >> /\ ~CallPending("issues.createComment"))
    /\ SettledCalls("pulls.update") \subseteq {1}
    /\ (Len(trace) >= 1 /\ trace[1].outcome \notin {"ok", "okDir"}) =>
         (Len(trace) = 1 /\ tpc \in {"handler", "done"} /\ pending = NoApi)

\* C26 witness: the state change has returned successfully and the comment
\* call is pending.
C26_Witness ==
  /\ program = "devkit" /\ invocation.tool = "github_pr_action"
  /\ invocation.action = "close" /\ invocation.comment
  /\ CallPending("issues.createComment")
  /\ Len(trace) = 1 /\ trace[1].api.api = "pulls.update" /\ trace[1].outcome = "ok"

\* C28: the script tool returns the timeout error only if the timer of the
\* configured timeout fired while the subprocess was running; a subprocess
\* that ended for another reason is never reported as timed out.
C28_TimeoutOnlyWhenElapsed ==
  (ScriptEnded /\ result.error = "Timeout") => child.timerFired

\* the HTTP methods of the remote calls of the current invocation, settled
\* or in flight
MethodsUsed ==
  { log[i].call.method : i \in 1..Len(log) } \cup
  (IF inflight = NoCall THEN {} ELSE {inflight.method})

\* C29: a tool named in readOnlyTools issues no POST, PUT or DELETE request
\* on any path through its handler, whatever the arguments and whatever the
\* remote answers.
C29_ReadOnlyToolsOnlyRead ==
  (program = "gitlab" /\ request.name \in Range(readOnlyTools)) =>
    MethodsUsed \subseteq {"GET"}

\* C29 witness: get_file_contents without a ref has returned after its two
\* remote calls, the default-branch lookup and the content fetch.
C29_Witness ==
  /\ program = "gitlab" /\ pc = "done"
  /\ request.name = "get_file_contents" /\ ~request.ref
  /\ request.name \in Range(readOnlyTools)
  /\ Len(log) = 2 /\ response.kind = "content"
  /\ MethodsUsed = {"GET"}

\* the names in the tool list and the names the switch has a case for
AllToolNames == { t.name : t \in Range(allTools) }
SwitchCaseNames == { c.name : c \in Range(DispatchCases) }
NoDuplicateNames(tools) ==
  \A i, j \in 1..Len(tools) : tools[i].name = tools[j].name => i = j

\* C30: listing and dispatch agree on the tool set.  Every name in allTools
\* has a dispatch case, every dispatch case names a tool in allTools, every
\* name in readOnlyTools is in allTools and no name occurs twice in allTools;
\* so, with read-only mode off, the listing holds exactly the names the
\* switch handles, an invocation of a listed name that carries arguments
\* never ends with UnknownToolError, and one of an unlisted name always does.
C30_ListingAgreesWithDispatch ==
  program = "gitlab" =>
    /\ AllToolNames = SwitchCaseNames
    /\ Range(readOnlyTools) \subseteq AllToolNames
    /\ NoDuplicateNames(allTools)
    /\ (listing # NoListing /\ env.readOnly # "true") =>
         ListedNames = SwitchCaseNames
    /\ (pc = "done" /\ request.args # Absent) =>
         (response.error = "UnknownTool" <=> request.name \notin AllToolNames)
    /\ pc \in {"case", "handler", "awaiting"} => request.name \in AllToolNames

\* C30 witness: with read-only mode off the whole tool list was listed, and
\* an invocation of the tool of the last dispatch case has returned content.
C30_Witness ==
  /\ program = "gitlab" /\ env.readOnly # "true" /\ listing = allTools
  /\ pc = "done" /\ request.name = DispatchCases[Len(DispatchCases)].name
  /\ request.name \in ListedNames
  /\ response.kind = "content" /\ ~response.failure

\* the two runs of the CallTool handler of a state
ThisTask == Task(pc, request, validated, handlerCalls, log, inflight, response)
Tasks == {ThisTask, suspended}

\* every remote call a run has made, or waits for, is the call its own
\* handler issues for its own request after its own earlier calls
CallsAreOwn(t) ==
  /\ (t.log # << >> \/ t.inflight # NoCall) => t.request.name \in SwitchCaseNames
  /\ \A i \in 1..Len(t.log) :
       LET step == HandlerStep(t.request, SubSeq(t.log, 1, i - 1)) IN
       step.kind = "call" /\ t.log[i].call = step.call
  /\ t.inflight # NoCall =>
       LET step == HandlerStep(t.request, t.log) IN
       step.kind = "call" /\ t.inflight = step.call

\* two finished runs with the same request and the same remote responses
\* have produced the same response
SameInputsSameResponse ==
  \A t, u \in Tasks :
    (t.pc = "done" /\ u.pc = "done" /\ t.request = u.request /\ t.log = u.log)
      => t.response = u.response

\* C27: under any interleaving of concurrent invocations and listings, no
\* step changes the read-only flag (the tool list and the read-only table
\* are constants), so a listing once given never changes; and each
\* invocation's remote calls and response are determined by its own name,
\* arguments and the remote responses it received.
C27_InvocationsIndependent ==
  /\ [][env' = env /\ (listing # NoListing => listing' = listing)]_vars
  /\ [](program = "gitlab" =>
          /\ \A t \in Tasks : CallsAreOwn(t)
          /\ SameInputsSameResponse
          /\ listing # NoListing => listing = ListedTools)

\* C27 witness: after a listing, one invocation has ended with its remote
\* calls made while another invocation of a different tool is waiting for
\* a remote response.
C27_Witness ==
  /\ program = "gitlab" /\ listing # NoListing
  /\ pc = "done" /\ log # << >> /\ response.kind = "content"
  /\ suspended.pc = "awaiting" /\ suspended.log # << >>
  /\ suspended.request.name # request.name

====
